---- MODULE Spec2Model ----
(***************************************************************************)
(* Model of backend/src/routes/post/controller.ts (StyleShare).            *)
(*                                                                         *)
(* Every controller is an async function: each `await prisma...` is one    *)
(* atomic storage operation, and other requests may run between two        *)
(* awaits of the same controller.  A request occupies one slot of Reqs;    *)
(* pc[r] names the await the request will execute next.                    *)
(***************************************************************************)
EXTENDS Integers, FiniteSets, Sequences, TLC

\* ---------------------------------------------------------------- bounds
NumUsers == 2
MaxPosts == 2
MaxReq == 3
MaxMixed == 2
MaxBoardUsers == 11

Users == 1..NumUsers
NoUser == 0
PostIds == 1..MaxPosts
Reqs == 1..MaxReq

ReactOps == {"like", "dislike"}
FavOps == {"favorite", "unfavorite"}
AllOps == ReactOps \cup FavOps \cup {"createComment", "createPost", "getFavoritePosts", "deletePost", "getPost"}

VARIABLES
  verified,             \* User.verified, by user id
  refIntegrity,         \* whether the storage rejects dangling references
  post,                 \* Post rows
  userPostInteraction,  \* UserPostInteraction rows
  favorite,             \* Favorite rows
  comment,              \* Comment rows
  postSeq,              \* number of Post ids handed out so far
  pc,                   \* per request: the await it is at
  req,                  \* per request: controller, req.userId, req.params.id
  interaction,          \* per request: the row read by findUnique (<<>> = null)
  res,                  \* per request: the response sent
  sends,                \* per request: how many times the handler wrote a response
  leaderboard,          \* getLeaderboard: the rows prisma.user.findMany returns, in its order
  leaderboardRes,       \* getLeaderboard: the response sent
  conc,                 \* history: requests in flight when the request began
  atBegin               \* history: what the request's pair and post were when it began

db == <<post, userPostInteraction, favorite, comment, postSeq>>
env == <<verified, refIntegrity, leaderboard, leaderboardRes>>
vars == <<verified, refIntegrity, leaderboard, leaderboardRes, post, userPostInteraction, favorite, comment, postSeq,
          pc, req, interaction, res, sends, conc, atBegin>>

\* ------------------------------------------------------- storage helpers
PostExists(p) == \E q \in post : q.id = p
PostRow(p) == CHOOSE q \in post : q.id = p
PostOpt(p) == IF PostExists(p) THEN <<PostRow(p)>> ELSE <<>>

\* prisma.<table>.findUnique({ where: { userId_postId: { userId, postId } } })
FindUnique(table, u, p) ==
  IF \E row \in table : row.userId = u /\ row.postId = p
  THEN <<CHOOSE row \in table : row.userId = u /\ row.postId = p>>
  ELSE <<>>

\* Variant: the table has no unique index.
UniqueViolationNever(table, u, p) == FALSE

\* The compound unique index behind the userId_postId selector: a second row
\* for the same pair is refused.
UniqueViolation(table, u, p) == \E row \in table : row.userId = u /\ row.postId = p

\* A row that names a post which does not exist is refused only by a storage
\* that enforces references.
DanglingRefused(p) == refIntegrity /\ ~PostExists(p)

\* prisma.<table>.update({ where: { id } }) throws when no row has the id.
RowPresent(table, row) == \E x \in table : x.id = row.id /\ x.userId = row.userId /\ x.postId = row.postId

\* Rows of the three child tables that name post p.
HasChildren(p) ==
  \/ \E x \in userPostInteraction : x.postId = p
  \/ \E x \in favorite : x.postId = p
  \/ \E x \in comment : x.postId = p

\* ------------------------------------------------------------- responses
NoResponse == [status |-> 0, msg |-> "", counts |-> <<>>, posts |-> {}]
Json(status, msg) == [status |-> status, msg |-> msg, counts |-> <<>>, posts |-> {}]

\* res.status(200).json({ message, likes: post?.likes, dislikes: post?.dislikes })
CountsJson(msg, found) ==
  [status |-> 200, msg |-> msg,
   counts |-> IF found = <<>> THEN <<>> ELSE <<found[1].likes, found[1].dislikes>>,
   posts |-> {}]

Respond(r, response) ==
  /\ res' = [res EXCEPT ![r] = response]
  /\ sends' = [sends EXCEPT ![r] = @ + 1]
  /\ pc' = [pc EXCEPT ![r] = "done"]

Goto(r, label) ==
  /\ pc' = [pc EXCEPT ![r] = label]
  /\ UNCHANGED <<res, sends>>

\* ----------------------------------------------------------------- Init
ReactionOf(u, p) ==
  LET found == FindUnique(userPostInteraction, u, p) IN
  IF found = <<>> THEN "NONE"
  ELSE IF found[1].liked /\ found[1].disliked THEN "BOTH"
  ELSE IF found[1].liked THEN "LIKED"
  ELSE IF found[1].disliked THEN "DISLIKED"
  ELSE "NONE"

Snapshot(u, p) ==
  [reaction |-> ReactionOf(u, p),
   favorited |-> FindUnique(favorite, u, p) # <<>>,
   counts |-> IF PostExists(p) THEN <<PostRow(p).likes, PostRow(p).dislikes>> ELSE <<>>]

NoRequest == [op |-> "none", userId |-> NoUser, postId |-> 1, valid |-> TRUE]

NoLeaderboard == [status |-> 0, leaderboard |-> <<>>]

\* The tables and the request slots before any request.
InitStore ==
  /\ post = {[id |-> 1, authorId |-> 1, likes |-> 0, dislikes |-> 0]}
  /\ userPostInteraction = {}
  /\ favorite = {}
  /\ comment = {}
  /\ postSeq = 1
  /\ pc = [r \in Reqs |-> "idle"]
  /\ req = [r \in Reqs |-> NoRequest]
  /\ interaction = [r \in Reqs |-> <<>>]
  /\ res = [r \in Reqs |-> NoResponse]
  /\ sends = [r \in Reqs |-> 0]
  /\ conc = [r \in Reqs |-> {}]
  /\ atBegin = [r \in Reqs |-> Snapshot(NoUser, 1)]

Init ==
  /\ verified \in {v \in [Users -> BOOLEAN] : v[1]}
  /\ refIntegrity \in BOOLEAN
  /\ leaderboard = <<>>
  /\ leaderboardRes = NoLeaderboard
  /\ InitStore

\* ------------------------------------------------------- request arrival
InFlight == {s \in Reqs : pc[s] \notin {"idle", "done"}}

\* `if (!userId) return res.status(...)`: the status and body of each controller.
InvalidUserJson(op) ==
  IF op \in {"createPost", "createComment", "deletePost"} THEN Json(403, "Invalid user")
  ELSE Json(400, "User ID is required.")

\* The first await of each controller.
FirstAwait(op) ==
  IF op \in ReactOps THEN "findInteraction"
  ELSE IF op = "deletePost" THEN "findPost"
  ELSE IF op = "getPost" THEN "findFirst"
  ELSE "findUser"

\* A request arrives: the synchronous prefix of the controller up to its first await.
Arrive(r, ops, limit) ==
  /\ r <= limit
  /\ pc[r] = "idle"
  /\ \A s \in Reqs : s < r => pc[s] # "idle"
  /\ \E op \in ops, u \in Users \cup {NoUser}, p \in PostIds, valid \in BOOLEAN :
       /\ op = "getPost" => u = NoUser
       /\ (u = NoUser /\ op # "getPost") => p = 1
       /\ op \in {"createPost", "getFavoritePosts"} => p = 1
       /\ (op # "createPost" \/ u = NoUser) => valid
       /\ op = "createPost" =>
            postSeq + Cardinality({s \in InFlight : req[s].op = "createPost"}) < MaxPosts
       /\ req' = [req EXCEPT ![r] = [op |-> op, userId |-> u, postId |-> p, valid |-> valid]]
       /\ conc' = [conc EXCEPT ![r] = InFlight]
       /\ atBegin' = [atBegin EXCEPT ![r] = Snapshot(u, p)]
       /\ IF u = NoUser /\ op # "getPost" THEN Respond(r, InvalidUserJson(op))
          ELSE Goto(r, FirstAwait(op))
  /\ UNCHANGED <<db, env, interaction>>

\* ------------------------------------------------- likePostController
\* Variant: the guard tests the other flag.
AlreadyLikedWrongFlag(found) == found # <<>> /\ found[1].disliked

AlreadyLiked(found) == found # <<>> /\ found[1].liked

\* Variant: the update sets liked and leaves disliked as it was.
LikeUpdateDataKeepsDisliked(row) == [row EXCEPT !.liked = TRUE]

LikeUpdateData(row) == [row EXCEPT !.liked = TRUE, !.disliked = FALSE]

LikeCreateData(r, u, p) == [id |-> r, userId |-> u, postId |-> p, liked |-> TRUE, disliked |-> FALSE]

\* Variant: a flip to liked that writes only the likes counter.
LikeFlipDeltaIncrementOnly(q, found) == [q EXCEPT !.likes = @ + 1]

\* data: { likes: { increment: 1 }, dislikes: interaction.disliked ? { decrement: 1 } : undefined }
LikeFlipDelta(q, found) ==
  [q EXCEPT !.likes = @ + 1, !.dislikes = IF found[1].disliked THEN @ - 1 ELSE @]

\* Variant: the counter is written as an absolute value instead of a delta.
LikeNewDeltaAbsolute(q) == [q EXCEPT !.likes = 1]

\* data: { likes: { increment: 1 } }
LikeNewDelta(q) == [q EXCEPT !.likes = @ + 1]

LikeFindInteraction(r) ==
  /\ pc[r] = "findInteraction" /\ req[r].op = "like"
  /\ LET found == FindUnique(userPostInteraction, req[r].userId, req[r].postId) IN
       /\ interaction' = [interaction EXCEPT ![r] = found]
       /\ IF AlreadyLiked(found) THEN Respond(r, Json(400, "You have already liked this post."))
          ELSE IF found # <<>> THEN Goto(r, "updateInteraction")
          ELSE Goto(r, "createInteraction")
  /\ UNCHANGED <<db, env, req, conc, atBegin>>

LikeUpdateInteraction(r) ==
  /\ pc[r] = "updateInteraction" /\ req[r].op = "like"
  /\ LET old == interaction[r][1] IN
       IF RowPresent(userPostInteraction, old)
       THEN /\ userPostInteraction' =
                 {IF x.id = old.id /\ x.userId = old.userId /\ x.postId = old.postId
                  THEN LikeUpdateData(x) ELSE x : x \in userPostInteraction}
            /\ Goto(r, "updatePost")
       ELSE /\ Respond(r, Json(500, "Failed to like the post."))
            /\ UNCHANGED userPostInteraction
  /\ UNCHANGED <<post, favorite, comment, postSeq, env, req, interaction, conc, atBegin>>

LikeUpdatePost(r) ==
  /\ pc[r] = "updatePost" /\ req[r].op = "like"
  /\ IF PostExists(req[r].postId)
     THEN /\ post' = {IF q.id = req[r].postId THEN LikeFlipDelta(q, interaction[r]) ELSE q : q \in post}
          /\ Goto(r, "readPost")
     ELSE /\ Respond(r, Json(500, "Failed to like the post."))
          /\ UNCHANGED post
  /\ UNCHANGED <<userPostInteraction, favorite, comment, postSeq, env, req, interaction, conc, atBegin>>

LikeCreateInteraction(r) ==
  /\ pc[r] = "createInteraction" /\ req[r].op = "like"
  /\ IF UniqueViolation(userPostInteraction, req[r].userId, req[r].postId) \/ DanglingRefused(req[r].postId)
     THEN /\ Respond(r, Json(500, "Failed to like the post."))
          /\ UNCHANGED userPostInteraction
     ELSE /\ userPostInteraction' = userPostInteraction \cup {LikeCreateData(r, req[r].userId, req[r].postId)}
          /\ Goto(r, "incrementPost")
  /\ UNCHANGED <<post, favorite, comment, postSeq, env, req, interaction, conc, atBegin>>

LikeIncrementPost(r) ==
  /\ pc[r] = "incrementPost" /\ req[r].op = "like"
  /\ IF PostExists(req[r].postId)
     THEN /\ post' = {IF q.id = req[r].postId THEN LikeNewDelta(q) ELSE q : q \in post}
          /\ Goto(r, "readPost")
     ELSE /\ Respond(r, Json(500, "Failed to like the post."))
          /\ UNCHANGED post
  /\ UNCHANGED <<userPostInteraction, favorite, comment, postSeq, env, req, interaction, conc, atBegin>>

LikeReadPost(r) ==
  /\ pc[r] = "readPost" /\ req[r].op = "like"
  /\ Respond(r, CountsJson("Post liked successful", PostOpt(req[r].postId)))
  /\ UNCHANGED <<db, env, req, interaction, conc, atBegin>>

\* ---------------------------------------------- dislikePostController
AlreadyDisliked(found) == found # <<>> /\ found[1].disliked

DislikeUpdateData(row) == [row EXCEPT !.liked = FALSE, !.disliked = TRUE]

DislikeCreateData(r, u, p) == [id |-> r, userId |-> u, postId |-> p, liked |-> FALSE, disliked |-> TRUE]

\* Variant: a flip to disliked that forgets to take the like back.
DislikeFlipDeltaNoDecrement(q, found) == [q EXCEPT !.dislikes = @ + 1]

\* data: { dislikes: { increment: 1 }, likes: interaction.liked ? { decrement: 1 } : undefined }
DislikeFlipDelta(q, found) ==
  [q EXCEPT !.dislikes = @ + 1, !.likes = IF found[1].liked THEN @ - 1 ELSE @]

\* Variant: the first dislike increments the other counter.
DislikeNewDeltaLikes(q) == [q EXCEPT !.likes = @ + 1]

\* data: { dislikes: { increment: 1 } }
DislikeNewDelta(q) == [q EXCEPT !.dislikes = @ + 1]

DislikeFindInteraction(r) ==
  /\ pc[r] = "findInteraction" /\ req[r].op = "dislike"
  /\ LET found == FindUnique(userPostInteraction, req[r].userId, req[r].postId) IN
       /\ interaction' = [interaction EXCEPT ![r] = found]
       /\ IF AlreadyDisliked(found) THEN Respond(r, Json(400, "You have already disliked this post."))
          ELSE IF found # <<>> THEN Goto(r, "updateInteraction")
          ELSE Goto(r, "createInteraction")
  /\ UNCHANGED <<db, env, req, conc, atBegin>>

DislikeUpdateInteraction(r) ==
  /\ pc[r] = "updateInteraction" /\ req[r].op = "dislike"
  /\ LET old == interaction[r][1] IN
       IF RowPresent(userPostInteraction, old)
       THEN /\ userPostInteraction' =
                 {IF x.id = old.id /\ x.userId = old.userId /\ x.postId = old.postId
                  THEN DislikeUpdateData(x) ELSE x : x \in userPostInteraction}
            /\ Goto(r, "updatePost")
       ELSE /\ Respond(r, Json(500, "Failed to dislike the post."))
            /\ UNCHANGED userPostInteraction
  /\ UNCHANGED <<post, favorite, comment, postSeq, env, req, interaction, conc, atBegin>>

DislikeUpdatePost(r) ==
  /\ pc[r] = "updatePost" /\ req[r].op = "dislike"
  /\ IF PostExists(req[r].postId)
     THEN /\ post' = {IF q.id = req[r].postId THEN DislikeFlipDelta(q, interaction[r]) ELSE q : q \in post}
          /\ Goto(r, "readPost")
     ELSE /\ Respond(r, Json(500, "Failed to dislike the post."))
          /\ UNCHANGED post
  /\ UNCHANGED <<userPostInteraction, favorite, comment, postSeq, env, req, interaction, conc, atBegin>>

DislikeCreateInteraction(r) ==
  /\ pc[r] = "createInteraction" /\ req[r].op = "dislike"
  /\ IF UniqueViolation(userPostInteraction, req[r].userId, req[r].postId) \/ DanglingRefused(req[r].postId)
     THEN /\ Respond(r, Json(500, "Failed to dislike the post."))
          /\ UNCHANGED userPostInteraction
     ELSE /\ userPostInteraction' = userPostInteraction \cup {DislikeCreateData(r, req[r].userId, req[r].postId)}
          /\ Goto(r, "incrementPost")
  /\ UNCHANGED <<post, favorite, comment, postSeq, env, req, interaction, conc, atBegin>>

DislikeIncrementPost(r) ==
  /\ pc[r] = "incrementPost" /\ req[r].op = "dislike"
  /\ IF PostExists(req[r].postId)
     THEN /\ post' = {IF q.id = req[r].postId THEN DislikeNewDelta(q) ELSE q : q \in post}
          /\ Goto(r, "readPost")
     ELSE /\ Respond(r, Json(500, "Failed to dislike the post."))
          /\ UNCHANGED post
  /\ UNCHANGED <<userPostInteraction, favorite, comment, postSeq, env, req, interaction, conc, atBegin>>

DislikeReadPost(r) ==
  /\ pc[r] = "readPost" /\ req[r].op = "dislike"
  /\ Respond(r, CountsJson("Post disliked successful", PostOpt(req[r].postId)))
  /\ UNCHANGED <<db, env, req, interaction, conc, atBegin>>

\* ------------------------------------------------- storage failure
\* `catch (error) { res.status(500).json({ error: "Failed to ... the post." }) }`
FailedJson(op) ==
  IF op = "like" THEN Json(500, "Failed to like the post.")
  ELSE Json(500, "Failed to dislike the post.")

\* The await the request is at rejects (connection lost, timeout): the storage
\* operation has no effect and control passes to the catch block.
StorageFails(r) ==
  /\ req[r].op \in ReactOps
  /\ pc[r] \in {"findInteraction", "updateInteraction", "updatePost",
                "createInteraction", "incrementPost", "readPost"}
  /\ Respond(r, FailedJson(req[r].op))
  /\ UNCHANGED <<db, env, req, interaction, conc, atBegin>>

\* ---------------------------------------------- createPostController
\* `if (!user?.verified) return res.status(403)...`, the same in every controller that checks.
NotVerifiedJson == Json(403, "User is not verified!")

CreatePostFindUser(r) ==
  /\ pc[r] = "findUser" /\ req[r].op = "createPost"
  /\ IF ~verified[req[r].userId] THEN Respond(r, NotVerifiedJson)
     ELSE IF ~req[r].valid THEN Respond(r, Json(411, "Invalid Inputs"))
     ELSE Goto(r, "createPost")
  /\ UNCHANGED <<db, env, req, interaction, conc, atBegin>>

NewPost(id, u) == [id |-> id, authorId |-> u, likes |-> 0, dislikes |-> 0]

CreatePostCreate(r) ==
  /\ pc[r] = "createPost" /\ req[r].op = "createPost"
  /\ postSeq < MaxPosts
  /\ post' = post \cup {NewPost(postSeq + 1, req[r].userId)}
  /\ postSeq' = postSeq + 1
  /\ Respond(r, Json(201, "Successfully created post!"))
  /\ UNCHANGED <<userPostInteraction, favorite, comment, env, req, interaction, conc, atBegin>>

\* ------------------------------------------- createCommentController
CreateCommentFindUser(r) ==
  /\ pc[r] = "findUser" /\ req[r].op = "createComment"
  /\ IF ~verified[req[r].userId] THEN Respond(r, NotVerifiedJson)
     ELSE Goto(r, "createComment")
  /\ UNCHANGED <<db, env, req, interaction, conc, atBegin>>

NewComment(r, u, p) == [id |-> r, userId |-> u, postId |-> p]

CreateCommentCreate(r) ==
  /\ pc[r] = "createComment" /\ req[r].op = "createComment"
  /\ IF DanglingRefused(req[r].postId)
     THEN /\ Respond(r, Json(500, "An unexpected exception occurred!"))
          /\ UNCHANGED comment
     ELSE /\ comment' = comment \cup {NewComment(r, req[r].userId, req[r].postId)}
          /\ Respond(r, Json(201, "Successfully created comment!"))
  /\ UNCHANGED <<post, userPostInteraction, favorite, postSeq, env, req, interaction, conc, atBegin>>

\* --------------------------------------------- favoritePostController
FavoriteFindUser(r) ==
  /\ pc[r] = "findUser" /\ req[r].op = "favorite"
  /\ IF ~verified[req[r].userId] THEN Respond(r, NotVerifiedJson)
     ELSE Goto(r, "findFavorite")
  /\ UNCHANGED <<db, env, req, interaction, conc, atBegin>>

AlreadyFavorited(found) == found # <<>>

FavoriteFindFavorite(r) ==
  /\ pc[r] = "findFavorite" /\ req[r].op = "favorite"
  /\ IF AlreadyFavorited(FindUnique(favorite, req[r].userId, req[r].postId))
     THEN Respond(r, Json(400, "You have already favorited this post."))
     ELSE Goto(r, "createFavorite")
  /\ UNCHANGED <<db, env, req, interaction, conc, atBegin>>

NewFavorite(r, u, p) == [id |-> r, userId |-> u, postId |-> p]

\* Variant: a favorite is also counted on the post.
FavoriteCreateCounted(r) ==
  /\ pc[r] = "createFavorite" /\ req[r].op = "favorite"
  /\ IF UniqueViolation(favorite, req[r].userId, req[r].postId) \/ DanglingRefused(req[r].postId)
     THEN /\ Respond(r, Json(500, "Failed to favorite the post."))
          /\ UNCHANGED <<favorite, post>>
     ELSE /\ favorite' = favorite \cup {NewFavorite(r, req[r].userId, req[r].postId)}
          /\ post' = {IF q.id = req[r].postId THEN [q EXCEPT !.likes = @ + 1] ELSE q : q \in post}
          /\ Respond(r, Json(200, "Post favorited successfully"))
  /\ UNCHANGED <<userPostInteraction, comment, postSeq, env, req, interaction, conc, atBegin>>

FavoriteCreate(r) ==
  /\ pc[r] = "createFavorite" /\ req[r].op = "favorite"
  /\ IF UniqueViolation(favorite, req[r].userId, req[r].postId) \/ DanglingRefused(req[r].postId)
     THEN /\ Respond(r, Json(500, "Failed to favorite the post."))
          /\ UNCHANGED favorite
     ELSE /\ favorite' = favorite \cup {NewFavorite(r, req[r].userId, req[r].postId)}
          /\ Respond(r, Json(200, "Post favorited successfully"))
  /\ UNCHANGED <<post, userPostInteraction, comment, postSeq, env, req, interaction, conc, atBegin>>

\* ------------------------------------------- unfavoritePostController
UnfavoriteFindUser(r) ==
  /\ pc[r] = "findUser" /\ req[r].op = "unfavorite"
  /\ IF ~verified[req[r].userId] THEN Respond(r, NotVerifiedJson)
     ELSE Goto(r, "findFavorite")
  /\ UNCHANGED <<db, env, req, interaction, conc, atBegin>>

NotFavorited(found) == found = <<>>

UnfavoriteFindFavorite(r) ==
  /\ pc[r] = "findFavorite" /\ req[r].op = "unfavorite"
  /\ IF NotFavorited(FindUnique(favorite, req[r].userId, req[r].postId))
     THEN Respond(r, Json(400, "You have not favorited this post."))
     ELSE Goto(r, "deleteFavorite")
  /\ UNCHANGED <<db, env, req, interaction, conc, atBegin>>

\* Variant: the two halves of the key are swapped.
FavoriteDeleteDataSwapped(table, u, p) == {x \in table : ~(x.userId = p /\ x.postId = u)}

\* prisma.favorite.delete({ where: { userId_postId } })
FavoriteDeleteData(table, u, p) == {x \in table : ~(x.userId = u /\ x.postId = p)}

UnfavoriteDelete(r) ==
  /\ pc[r] = "deleteFavorite" /\ req[r].op = "unfavorite"
  /\ IF FindUnique(favorite, req[r].userId, req[r].postId) = <<>>
     THEN /\ Respond(r, Json(500, "Failed to unfavorite the post."))
          /\ UNCHANGED favorite
     ELSE /\ favorite' = FavoriteDeleteData(favorite, req[r].userId, req[r].postId)
          /\ Respond(r, Json(200, "Post unfavorited successfully"))
  /\ UNCHANGED <<post, userPostInteraction, comment, postSeq, env, req, interaction, conc, atBegin>>

\* ----------------------------------------- getFavoritePostsController
GetFavoritePostsFindUser(r) ==
  /\ pc[r] = "findUser" /\ req[r].op = "getFavoritePosts"
  /\ IF ~verified[req[r].userId] THEN Respond(r, NotVerifiedJson)
     ELSE Goto(r, "findFavorites")
  /\ UNCHANGED <<db, env, req, interaction, conc, atBegin>>

\* prisma.favorite.findMany({ where: { userId }, include: { post } })
FavoritesOf(u) == {x \in favorite : x.userId = u}

\* favorites.map((fav) => fav.post)
FavoritePosts(u) == {x.postId : x \in FavoritesOf(u)}

\* Post is a required relation of Favorite: the query throws when the post of
\* a row it found is gone.
GetFavoritePostsFindMany(r) ==
  /\ pc[r] = "findFavorites" /\ req[r].op = "getFavoritePosts"
  /\ IF \E x \in FavoritesOf(req[r].userId) : ~PostExists(x.postId)
     THEN Respond(r, Json(500, "Failed to fetch favorite posts."))
     ELSE Respond(r, [Json(200, "favoritePosts") EXCEPT !.posts = FavoritePosts(req[r].userId)])
  /\ UNCHANGED <<db, env, req, interaction, conc, atBegin>>

\* -------------------------------------------------- getPostController
\* The controller reads no user id.  When findFirst returns null the 404 is
\* written and control falls through to res.status(200).json({ post }): a
\* second write on a response that has been sent.  Whether that write throws is
\* up to the HTTP library; when it does, the catch block writes a third time.
\* The client has the first response.
GetPostFindFirst(r) ==
  /\ pc[r] = "findFirst" /\ req[r].op = "getPost"
  /\ IF PostExists(req[r].postId)
     THEN Respond(r, [CountsJson("post", PostOpt(req[r].postId)) EXCEPT !.posts = {req[r].postId}])
     ELSE /\ res' = [res EXCEPT ![r] = Json(404, "No such post exists!")]
          /\ \E threw \in BOOLEAN :
               sends' = [sends EXCEPT ![r] = IF threw THEN 3 ELSE 2]
          /\ pc' = [pc EXCEPT ![r] = "done"]
  /\ UNCHANGED <<db, env, req, interaction, conc, atBegin>>

\* ------------------------------------------- getLeaderboardController
Top10 == 10

\* posts: { select: { likes: true } } of one user: none, one post, two posts.
PostLists == {<<>>, <<[likes |-> 5]>>, <<[likes |-> 5], [likes |-> 5]>>}

\* What prisma.user.findMany returns for n users whose posts are f[1], ..., f[n]:
\* the id of a user is its place in the enumeration.
FindMany(n, f) == [i \in 1..n |-> [id |-> i, posts |-> f[i]]]

\* user.posts.reduce((sum, post) => sum + post.likes, 0)
RECURSIVE Reduce(_, _, _)
Reduce(posts, i, sum) ==
  IF i > Len(posts) THEN sum ELSE Reduce(posts, i + 1, sum + posts[i].likes)

\* leaderboard.map((user) => ({ id, username, postCount: user._count.posts, totalLikes }))
UserLikes(rows) ==
  [i \in 1..Len(rows) |->
     [id |-> rows[i].id, postCount |-> Len(rows[i].posts),
      totalLikes |-> Reduce(rows[i].posts, 1, 0)]]

\* Variant: the comparator sorts ascending.
CompareAscending(a, b) == a.totalLikes - b.totalLikes

\* (a, b) => b.totalLikes - a.totalLikes
Compare(a, b) == b.totalLikes - a.totalLikes

\* Variant: an element also moves in front of the elements it ties with.
RECURSIVE InsertBeforeTies(_, _)
InsertBeforeTies(sorted, x) ==
  IF sorted # <<>> /\ Compare(sorted[Len(sorted)], x) >= 0
  THEN Append(InsertBeforeTies(SubSeq(sorted, 1, Len(sorted) - 1), x), sorted[Len(sorted)])
  ELSE Append(sorted, x)

\* Array.prototype.sort is stable: an element moves in front of those the
\* comparator puts strictly after it, and stays behind the ones it ties with.
RECURSIVE Insert(_, _)
Insert(sorted, x) ==
  IF sorted # <<>> /\ Compare(sorted[Len(sorted)], x) > 0
  THEN Append(Insert(SubSeq(sorted, 1, Len(sorted) - 1), x), sorted[Len(sorted)])
  ELSE Append(sorted, x)

\* userLikes.sort(...)
RECURSIVE Sort(_)
Sort(a) ==
  IF a = <<>> THEN <<>> ELSE Insert(Sort(SubSeq(a, 1, Len(a) - 1)), a[Len(a)])

\* userLikes.slice(0, 10)
Slice(a, n) == SubSeq(a, 1, IF Len(a) < n THEN Len(a) ELSE n)

\* top10Users.map((user, index) => ({ rank: index + 1, userId: user.id, ... }))
Ranked(a) ==
  [index \in 1..Len(a) |->
     [rank |-> index, userId |-> a[index].id, postCount |-> a[index].postCount,
      totalLikes |-> a[index].totalLikes]]

GetLeaderboard ==
  /\ leaderboardRes = NoLeaderboard
  /\ leaderboardRes' =
       [status |-> 200, leaderboard |-> Ranked(Slice(Sort(UserLikes(leaderboard)), Top10))]
  /\ UNCHANGED <<db, verified, refIntegrity, leaderboard, pc, req, interaction, res, sends,
                 conc, atBegin>>

InitBoard ==
  /\ verified = [u \in Users |-> TRUE]
  /\ refIntegrity = TRUE
  /\ \E n \in 0..MaxBoardUsers : \E f \in [1..n -> PostLists] : leaderboard = FindMany(n, f)
  /\ leaderboardRes = NoLeaderboard
  /\ InitStore

NextBoard == GetLeaderboard

\* One leaderboard request over every enumeration of up to MaxBoardUsers users.
SpecBoard == InitBoard /\ [][NextBoard]_vars

\* ----------------------------------------------- deletePostController
\* Variant: the author is not compared with the caller.
DeletePostFindPostAnyUser(r) ==
  /\ pc[r] = "findPost" /\ req[r].op = "deletePost"
  /\ IF ~PostExists(req[r].postId) THEN Respond(r, Json(404, "Post not found"))
     ELSE Goto(r, "deleteInteractions")
  /\ UNCHANGED <<db, env, req, interaction, conc, atBegin>>

DeletePostFindPost(r) ==
  /\ pc[r] = "findPost" /\ req[r].op = "deletePost"
  /\ IF ~PostExists(req[r].postId) THEN Respond(r, Json(404, "Post not found"))
     ELSE IF PostRow(req[r].postId).authorId # req[r].userId
     THEN Respond(r, Json(403, "You are not authorized to delete this post"))
     ELSE Goto(r, "deleteInteractions")
  /\ UNCHANGED <<db, env, req, interaction, conc, atBegin>>

\* prisma.<table>.deleteMany({ where: { postId } })
DeleteMany(table, p) == {x \in table : x.postId # p}

DeletePostInteractions(r) ==
  /\ pc[r] = "deleteInteractions" /\ req[r].op = "deletePost"
  /\ userPostInteraction' = DeleteMany(userPostInteraction, req[r].postId)
  /\ Goto(r, "deleteComments")
  /\ UNCHANGED <<post, favorite, comment, postSeq, env, req, interaction, conc, atBegin>>

DeletePostComments(r) ==
  /\ pc[r] = "deleteComments" /\ req[r].op = "deletePost"
  /\ comment' = DeleteMany(comment, req[r].postId)
  /\ Goto(r, "deleteFavorites")
  /\ UNCHANGED <<post, userPostInteraction, favorite, postSeq, env, req, interaction, conc, atBegin>>

DeletePostFavorites(r) ==
  /\ pc[r] = "deleteFavorites" /\ req[r].op = "deletePost"
  /\ favorite' = DeleteMany(favorite, req[r].postId)
  /\ Goto(r, "deletePost")
  /\ UNCHANGED <<post, userPostInteraction, comment, postSeq, env, req, interaction, conc, atBegin>>

\* prisma.post.delete({ where: { id } }) throws when the post is gone, and when
\* the storage enforces references and a child row still names the post.
DeletePostDelete(r) ==
  /\ pc[r] = "deletePost" /\ req[r].op = "deletePost"
  /\ IF ~PostExists(req[r].postId) \/ (refIntegrity /\ HasChildren(req[r].postId))
     THEN /\ Respond(r, Json(500, "An unexpected error occurred"))
          /\ UNCHANGED post
     ELSE /\ post' = {q \in post : q.id # req[r].postId}
          /\ Respond(r, Json(200, "Post deleted successfully"))
  /\ UNCHANGED <<userPostInteraction, favorite, comment, postSeq, env, req, interaction, conc, atBegin>>

\* ------------------------------------------------------ specifications
ArriveReact(r) == Arrive(r, ReactOps, MaxReq)

LikeStep(r) ==
  \/ LikeFindInteraction(r)
  \/ LikeUpdateInteraction(r)
  \/ LikeUpdatePost(r)
  \/ LikeCreateInteraction(r)
  \/ LikeIncrementPost(r)
  \/ LikeReadPost(r)

DislikeStep(r) ==
  \/ DislikeFindInteraction(r)
  \/ DislikeUpdateInteraction(r)
  \/ DislikeUpdatePost(r)
  \/ DislikeCreateInteraction(r)
  \/ DislikeIncrementPost(r)
  \/ DislikeReadPost(r)

NextReact == \E r \in Reqs : ArriveReact(r) \/ LikeStep(r) \/ DislikeStep(r)

\* Like and dislike requests only, up to MaxReq of them, freely interleaved.
SpecReact == Init /\ [][NextReact]_vars

ArriveFault(r) == Arrive(r, ReactOps, MaxMixed)

NextFault == \E r \in Reqs : ArriveFault(r) \/ LikeStep(r) \/ DislikeStep(r) \/ StorageFails(r)

\* Like and dislike requests whose storage operations may fail.
SpecFault == Init /\ [][NextFault]_vars

FavoriteStep(r) ==
  \/ FavoriteFindUser(r)
  \/ FavoriteFindFavorite(r)
  \/ FavoriteCreate(r)

UnfavoriteStep(r) ==
  \/ UnfavoriteFindUser(r)
  \/ UnfavoriteFindFavorite(r)
  \/ UnfavoriteDelete(r)

CreateStep(r) ==
  \/ CreatePostFindUser(r)
  \/ CreatePostCreate(r)
  \/ CreateCommentFindUser(r)
  \/ CreateCommentCreate(r)

GetFavoritePostsStep(r) ==
  \/ GetFavoritePostsFindUser(r)
  \/ GetFavoritePostsFindMany(r)

DeletePostStep(r) ==
  \/ DeletePostFindPost(r)
  \/ DeletePostInteractions(r)
  \/ DeletePostComments(r)
  \/ DeletePostFavorites(r)
  \/ DeletePostDelete(r)

ArriveFav(r) == Arrive(r, FavOps, MaxReq)

NextFav == \E r \in Reqs : ArriveFav(r) \/ FavoriteStep(r) \/ UnfavoriteStep(r)

\* Favorite and unfavorite requests only, up to MaxReq of them, freely interleaved.
SpecFav == Init /\ [][NextFav]_vars

ArriveAny(r) == Arrive(r, AllOps, MaxMixed)

Next ==
  \E r \in Reqs :
    \/ ArriveAny(r)
    \/ LikeStep(r)
    \/ DislikeStep(r)
    \/ FavoriteStep(r)
    \/ UnfavoriteStep(r)
    \/ CreateStep(r)
    \/ GetFavoritePostsStep(r)
    \/ DeletePostStep(r)
    \/ GetPostFindFirst(r)

\* Requests to every controller, up to MaxMixed of them, freely interleaved.
Spec == Init /\ [][Next]_vars

\* =================================================================
\* Properties
\* =================================================================
Issued(r) == pc[r] # "idle" /\ req[r].userId # NoUser
Done(r) == pc[r] = "done" /\ req[r].userId # NoUser
SamePair(r, s) == req[r].userId = req[s].userId /\ req[r].postId = req[s].postId
\* r had sent its response before s arrived
Before(r, s) == r < s /\ pc[s] # "idle" /\ r \notin conc[s]
\* r and s were in flight at the same time
Overlap(r, s) == r < s /\ r \in conc[s]

\* C1: no UserPostInteraction row ever has liked and disliked both true,
\* whatever like and dislike requests ran and however they interleaved.
C1_MutuallyExclusive == \A x \in userPostInteraction : ~(x.liked /\ x.disliked)

\* A like and a dislike of the same pair overlapped and both succeeded.
C1_Witness ==
  \E r, s \in Reqs :
    /\ (Overlap(r, s) \/ Overlap(s, r)) /\ SamePair(r, s)
    /\ Done(r) /\ Done(s)
    /\ req[r].op = "like" /\ req[s].op = "dislike"
    /\ res[r].status = 200 /\ res[s].status = 200
    /\ FindUnique(userPostInteraction, req[r].userId, req[r].postId) # <<>>

\* The requests that name post p
ReqsOn(p) == {r \in Reqs : Issued(r) /\ req[r].postId = p}
\* The request of a non-empty set that arrived first
First(R) == CHOOSE r \in R : \A s \in R : r <= s

\* like requests by distinct users, none of whom had reacted to the post
DistinctFreshLikes(R) ==
  /\ R # {}
  /\ \A r \in R :
       /\ req[r].op = "like" /\ pc[r] = "done"
       /\ atBegin[r].reaction = "NONE" /\ atBegin[r].counts # <<>>
  /\ \A r, s \in R : r # s => req[r].userId # req[s].userId

\* C2: when the only requests on post p are likes by N distinct users who had
\* not reacted to it, then once all have finished every one of them succeeded
\* and p.likes is its initial value plus N, under every interleaving.
C2_NoLostLike ==
  \A p \in PostIds :
    DistinctFreshLikes(ReqsOn(p)) =>
      /\ \A r \in ReqsOn(p) : res[r].status = 200
      /\ PostExists(p)
      /\ PostRow(p).likes = atBegin[First(ReqsOn(p))].counts[1] + Cardinality(ReqsOn(p))

\* Two such likes overlapped and both are finished.
C2_Witness ==
  \E p \in PostIds :
    /\ DistinctFreshLikes(ReqsOn(p))
    /\ \E r, s \in ReqsOn(p) : Overlap(r, s)
    /\ PostRow(p).likes = atBegin[First(ReqsOn(p))].counts[1] + 2

\* Every other request on the post of r had finished before r arrived.
OthersFinishedBefore(r, R) ==
  \A s \in ReqsOn(req[r].postId) \ R : Before(s, r)

\* C3: two overlapping copies of the same like (or dislike) request by one user
\* apply the transition at most once: the target counter rises by at most 1 and
\* the opposite counter falls by at most 1.
C3_DuplicateAppliedOnce ==
  \A r, s \in Reqs :
    (/\ Overlap(r, s) /\ Done(r) /\ Done(s)
     /\ req[r] = req[s] /\ req[r].op \in ReactOps
     /\ atBegin[r].counts # <<>> /\ PostExists(req[r].postId)
     /\ OthersFinishedBefore(r, {r, s}))
    => LET was == atBegin[r].counts
           now == PostRow(req[r].postId)
       IN IF req[r].op = "like"
          THEN now.likes - was[1] <= 1 /\ was[2] - now.dislikes <= 1
          ELSE now.dislikes - was[2] <= 1 /\ was[1] - now.likes <= 1

\* C4: the likes and dislikes counters of every post are never negative.
C4_CountersNonNegative == \A q \in post : q.likes >= 0 /\ q.dislikes >= 0

\* like, dislike, like by one user on one post, each finished before the next
\* arrived, starting from NONE, with no other request on the post meanwhile.
FlipFlop(r1, r2, r3) ==
  /\ Done(r1) /\ Done(r2) /\ Done(r3)
  /\ Before(r1, r2) /\ Before(r2, r3)
  /\ SamePair(r1, r2) /\ SamePair(r2, r3)
  /\ req[r1].op = "like" /\ req[r2].op = "dislike" /\ req[r3].op = "like"
  /\ atBegin[r1].reaction = "NONE" /\ atBegin[r1].counts # <<>>
  /\ OthersFinishedBefore(r1, {r1, r2, r3})

\* C5: like, then dislike, then like on a pair in state NONE ends LIKED with
\* likes one higher than at the start and dislikes as at the start.
C5_FlipFlop ==
  \A r1, r2, r3 \in Reqs :
    FlipFlop(r1, r2, r3) =>
      /\ ReactionOf(req[r1].userId, req[r1].postId) = "LIKED"
      /\ PostExists(req[r1].postId)
      /\ PostRow(req[r1].postId).likes = atBegin[r1].counts[1] + 1
      /\ PostRow(req[r1].postId).dislikes = atBegin[r1].counts[2]
      /\ res[r3] = CountsJson("Post liked successful", PostOpt(req[r1].postId))

C5_Witness == \E r1, r2, r3 \in Reqs : FlipFlop(r1, r2, r3)

AlreadyReactedJson(op) ==
  IF op = "like" THEN Json(400, "You have already liked this post.")
  ELSE Json(400, "You have already disliked this post.")

\* The request reads its pair, and the pair is already in the state it asks for.
ReadsOwnState(r) ==
  /\ pc[r] = "findInteraction" /\ pc'[r] # "findInteraction"
  /\ \/ req[r].op = "like" /\ ReactionOf(req[r].userId, req[r].postId) = "LIKED"
     \/ req[r].op = "dislike" /\ ReactionOf(req[r].userId, req[r].postId) = "DISLIKED"

\* C6: a like of an already LIKED pair, and a dislike of an already DISLIKED
\* pair, is answered AlreadyReacted and leaves the rows and the counters as
\* they were, every time it is repeated.
C6_RepeatRejected ==
  [][\A r \in Reqs :
       ReadsOwnState(r) =>
         /\ pc'[r] = "done"
         /\ res'[r] = AlreadyReactedJson(req[r].op)
         /\ UNCHANGED <<post, userPostInteraction>>]_vars

\* The same like was rejected twice.
C6_Witness ==
  \E r, s \in Reqs :
    /\ r < s /\ Done(r) /\ Done(s) /\ req[r] = req[s]
    /\ res[r] = AlreadyReactedJson(req[r].op) /\ res[s] = res[r]

WriteOps == {"like", "dislike", "favorite", "unfavorite", "createComment", "createPost"}

\* C7: a write request of an unverified user changes no row and no counter,
\* and is answered Forbidden.
C7_UnverifiedForbidden ==
  [][\A r \in Reqs :
       (/\ pc'[r] # pc[r] /\ pc[r] # "idle"
        /\ req[r].op \in WriteOps /\ req[r].userId # NoUser
        /\ ~verified[req[r].userId])
       => /\ UNCHANGED <<post, userPostInteraction, favorite, comment>>
          /\ pc'[r] = "done" => res'[r].status = 403]_vars

\* C8: a like or dislike of a post that does not exist is answered NotFound
\* and leaves no UserPostInteraction row for it and no counter changed.
C8_MissingPostNotFound ==
  \A r \in Reqs :
    (/\ Done(r) /\ req[r].op \in ReactOps
     /\ atBegin[r].counts = <<>> /\ ~PostExists(req[r].postId))
    => /\ res[r].status = 404
       /\ \A x \in userPostInteraction : x.postId # req[r].postId

\* favorite, unfavorite, favorite by one verified user on one existing post
\* that the user had not favorited, each finished before the next arrived, and
\* no other request of that pair overlapping them.
FavoriteCycle(r1, r2, r3) ==
  /\ Done(r1) /\ Done(r2) /\ Done(r3)
  /\ Before(r1, r2) /\ Before(r2, r3)
  /\ SamePair(r1, r2) /\ SamePair(r2, r3)
  /\ req[r1].op = "favorite" /\ req[r2].op = "unfavorite" /\ req[r3].op = "favorite"
  /\ verified[req[r1].userId]
  /\ ~atBegin[r1].favorited /\ atBegin[r1].counts # <<>>
  /\ \A s \in Reqs \ {r1, r2, r3} :
       (Issued(s) /\ SamePair(s, r1)) => (Before(s, r1) \/ Before(r3, s))

\* The request reads its Favorite row, and the row is already as it asks.
ReadsOwnFavorite(r) ==
  /\ pc[r] = "findFavorite" /\ pc'[r] # "findFavorite"
  /\ \/ req[r].op = "favorite" /\ FindUnique(favorite, req[r].userId, req[r].postId) # <<>>
     \/ req[r].op = "unfavorite" /\ FindUnique(favorite, req[r].userId, req[r].postId) = <<>>

FavoriteRejectedJson(op) ==
  IF op = "favorite" THEN Json(400, "You have already favorited this post.")
  ELSE Json(400, "You have not favorited this post.")

\* C9: favorite, unfavorite, favorite in sequence each succeed; a favorite that
\* finds the row present is answered AlreadyFavorited and an unfavorite that
\* finds it absent NotFavorited, and neither changes the Favorite rows.
C9_FavoriteCycle ==
  /\ [](\A r1, r2, r3 \in Reqs :
          FavoriteCycle(r1, r2, r3) =>
            /\ res[r1] = Json(200, "Post favorited successfully")
            /\ res[r2] = Json(200, "Post unfavorited successfully")
            /\ res[r3] = Json(200, "Post favorited successfully"))
  /\ [][\A r \in Reqs :
          ReadsOwnFavorite(r) =>
            /\ pc'[r] = "done"
            /\ res'[r] = FavoriteRejectedJson(req[r].op)
            /\ UNCHANGED favorite]_vars

C9_Witness ==
  \E r1, r2, r3 \in Reqs :
    /\ FavoriteCycle(r1, r2, r3)
    /\ FindUnique(favorite, req[r1].userId, req[r1].postId) # <<>>

\* C10: once deletePost has reported success for post p, no UserPostInteraction,
\* Comment or Favorite row names p, and no user's favorite posts include p.
C10_DeletedPostHasNoRows ==
  \A r \in Reqs :
    (Done(r) /\ req[r].op = "deletePost" /\ res[r].status = 200)
    => /\ ~HasChildren(req[r].postId)
       /\ \A u \in Users : req[r].postId \notin FavoritePosts(u)

\* The rows of the three child tables that name post p.
ChildRows(p) ==
  <<{x \in userPostInteraction : x.postId = p},
    {x \in comment : x.postId = p},
    {x \in favorite : x.postId = p}>>

\* Request r executes one of its steps.
Steps(r) == pc[r] # "idle" /\ pc'[r] # pc[r]

\* C11: deletePost is all-or-nothing: a step of deletePost after which the
\* post is still there has removed none of the post's interactions, comments
\* and favorites, so no reader and no failed step sees the post with part of
\* its children gone.
C11_DeleteAllOrNothing ==
  [][\A r \in Reqs :
       (Steps(r) /\ req[r].op = "deletePost" /\ PostExists(req[r].postId)')
       => ChildRows(req[r].postId)' = ChildRows(req[r].postId)]_vars

DeleteRejectedJson(r) ==
  IF ~PostExists(req[r].postId) THEN Json(404, "Post not found")
  ELSE Json(403, "You are not authorized to delete this post")

\* C12: a deletePost by a user who is not the author of the post is answered
\* Forbidden, and a deletePost of a post that does not exist NotFound, in both
\* cases before any deletion: no request deletes rows of a post it did not author.
C12_DeleteByAuthorOnly ==
  /\ [](\A r \in Reqs :
          (/\ req[r].op = "deletePost"
           /\ pc[r] \in {"deleteInteractions", "deleteComments", "deleteFavorites", "deletePost"}
           /\ PostExists(req[r].postId))
          => PostRow(req[r].postId).authorId = req[r].userId)
  /\ [][\A r \in Reqs :
          (/\ Steps(r) /\ req[r].op = "deletePost" /\ pc[r] = "findPost"
           /\ (~PostExists(req[r].postId) \/ PostRow(req[r].postId).authorId # req[r].userId))
          => /\ pc'[r] = "done"
             /\ res'[r] = DeleteRejectedJson(r)
             /\ UNCHANGED <<post, userPostInteraction, favorite, comment>>]_vars

\* A user who is not the author asked to delete a post that has a child row,
\* was answered 403, and the post and the row are still there.
C12_Witness ==
  \E r \in Reqs :
    /\ Done(r) /\ req[r].op = "deletePost"
    /\ res[r] = Json(403, "You are not authorized to delete this post")
    /\ PostExists(req[r].postId) /\ HasChildren(req[r].postId)

\* The request read a row whose opposite flag was set: its transition is a flip.
IsFlip(r) ==
  /\ req[r].op \in ReactOps /\ interaction[r] # <<>>
  /\ IF req[r].op = "like" THEN interaction[r][1].disliked ELSE interaction[r][1].liked

\* The counters of post row q after the step, as <<target, opposite>> of op.
CountersAfter(q, op) ==
  LET q2 == CHOOSE x \in post' : x.id = q.id
  IN IF op = "like" THEN <<q2.likes, q2.dislikes>> ELSE <<q2.dislikes, q2.likes>>

CountersBefore(q, op) ==
  IF op = "like" THEN <<q.likes, q.dislikes>> ELSE <<q.dislikes, q.likes>>

\* C15: the two counter changes of a flip happen in one step: each step of a
\* flipping request leaves both counters of the post as they were or moves
\* both, the target up by one and the opposite down by one, and the step that
\* executes post.update moves both.
C15_FlipCountersTogether ==
  [][\A r \in Reqs : \A q \in post :
       (Steps(r) /\ IsFlip(r) /\ q.id = req[r].postId)
       => /\ \E x \in post' : x.id = q.id
          /\ LET was == CountersBefore(q, req[r].op)
                 now == CountersAfter(q, req[r].op)
             IN IF pc[r] = "updatePost" /\ pc'[r] = "readPost"
                THEN now = <<was[1] + 1, was[2] - 1>>
                ELSE now = was]_vars

\* A flip from DISLIKED to LIKED has been answered 200.
C15_Witness ==
  \E r \in Reqs :
    /\ Done(r) /\ IsFlip(r) /\ req[r].op = "like" /\ res[r].status = 200
    /\ res[r].counts # <<>>

\* C16: favorite and unfavorite requests change no UserPostInteraction row and
\* no post counter, and like and dislike requests change no Favorite row.
C16_FavoriteIndependent ==
  [][\A r \in Reqs :
       Steps(r) =>
         /\ req[r].op \in FavOps => UNCHANGED <<userPostInteraction, post>>
         /\ req[r].op \in ReactOps => UNCHANGED favorite]_vars

\* One user has favorited and liked the same post.
C16_Witness ==
  \E r, s \in Reqs :
    /\ Done(r) /\ Done(s) /\ SamePair(r, s)
    /\ req[r].op = "favorite" /\ res[r].status = 200
    /\ req[s].op = "like" /\ res[s].status = 200
    /\ FindUnique(favorite, req[r].userId, req[r].postId) # <<>>
    /\ ReactionOf(req[r].userId, req[r].postId) = "LIKED"

RowsOf(table, u, p) == {x \in table : x.userId = u /\ x.postId = p}

\* The request is about to create a row for a pair that already has one.
CreatesDuplicate(r) ==
  \/ pc[r] = "createInteraction" /\ RowsOf(userPostInteraction, req[r].userId, req[r].postId) # {}
  \/ pc[r] = "createFavorite" /\ RowsOf(favorite, req[r].userId, req[r].postId) # {}

\* C17: there is never more than one UserPostInteraction row and never more
\* than one Favorite row for a (userId, postId) pair, and a request that would
\* create a second one fails and changes no row and no counter.
C17_OneRowPerPair ==
  /\ [](\A u \in Users, p \in PostIds :
          /\ Cardinality(RowsOf(userPostInteraction, u, p)) <= 1
          /\ Cardinality(RowsOf(favorite, u, p)) <= 1)
  /\ [][\A r \in Reqs :
          (Steps(r) /\ CreatesDuplicate(r))
          => /\ pc'[r] = "done" /\ res'[r].status = 500
             /\ UNCHANGED <<post, userPostInteraction, favorite>>]_vars

\* Two overlapping copies of a like: one was answered 200, the other failed,
\* and the post counts one like.
C17_Witness ==
  \E r, s \in Reqs :
    /\ r # s /\ (Overlap(r, s) \/ Overlap(s, r)) /\ Done(r) /\ Done(s)
    /\ req[r] = req[s] /\ req[r].op = "like"
    /\ res[r].status = 200 /\ res[s].status = 500
    /\ PostExists(req[r].postId) /\ PostRow(req[r].postId).likes = 1

\* Every request arrived when none was in flight, all have been answered, and
\* none failed in the storage.
RanOneAtATime ==
  /\ InFlight = {}
  /\ \A r \in Reqs : conc[r] = {} /\ res[r].status # 500

\* C18: after like and dislike requests run one at a time without storage
\* failure, the likes (dislikes) counter of every post is the number of
\* UserPostInteraction rows of that post with liked (disliked) true.
C18_CountersMatchRows ==
  RanOneAtATime =>
    \A q \in post :
      /\ q.likes = Cardinality({x \in userPostInteraction : x.postId = q.id /\ x.liked})
      /\ q.dislikes = Cardinality({x \in userPostInteraction : x.postId = q.id /\ x.disliked})

\* Three requests ran one at a time and left a post with a like and a dislike.
C18_Witness ==
  /\ RanOneAtATime
  /\ \A r \in Reqs : Done(r)
  /\ \E q \in post : q.likes = 1 /\ q.dislikes = 1

\* C19: a like or dislike request that ends in a storage failure leaves the
\* interaction row of its pair and both counters of the post as they were
\* when it began (stated for a request that ran with no other request).
C19_FailureLeavesNoTrace ==
  \A r \in Reqs :
    (/\ Done(r) /\ req[r].op \in ReactOps /\ res[r].status = 500
     /\ \A s \in Reqs \ {r} : pc[s] = "idle")
    => Snapshot(req[r].userId, req[r].postId) = atBegin[r]

\* C20: every invocation of a controller writes exactly one response: never
\* more than one, and one once the handler has returned.
C20_ExactlyOneResponse ==
  \A r \in Reqs :
    /\ sends[r] <= 1
    /\ pc[r] = "done" => sends[r] = 1

\* The sum of likes over the posts of one enumerated user.
RECURSIVE LikesOf(_)
LikesOf(posts) == IF posts = <<>> THEN 0 ELSE Head(posts).likes + LikesOf(Tail(posts))

Board == leaderboardRes.leaderboard
BoardIds == {Board[i].userId : i \in 1..Len(Board)}

\* C13: the leaderboard has at most 10 records, each for a different enumerated
\* user; a record's totalLikes is the sum of likes over that user's posts;
\* totalLikes never increases along the list; the record at position i has
\* rank i; and no omitted user has more totalLikes than an included one.
C13_Leaderboard ==
  leaderboardRes.status = 200 =>
    /\ Len(Board) <= 10
    /\ Len(Board) = Cardinality(BoardIds)
    /\ BoardIds \subseteq 1..Len(leaderboard)
    /\ \A i \in 1..Len(Board) :
         /\ Board[i].rank = i
         /\ Board[i].totalLikes = LikesOf(leaderboard[Board[i].userId].posts)
    /\ \A i, j \in 1..Len(Board) : i < j => Board[i].totalLikes >= Board[j].totalLikes
    /\ \A u \in (1..Len(leaderboard)) \ BoardIds : \A i \in 1..Len(Board) :
         LikesOf(leaderboard[u].posts) <= Board[i].totalLikes

\* Eleven users with different totals were enumerated: one is left out.
C13_Witness ==
  /\ leaderboardRes.status = 200
  /\ Len(leaderboard) = 11 /\ Len(Board) = 10
  /\ Board[1].totalLikes = 10 /\ Board[10].totalLikes = 5
  /\ LikesOf(leaderboard[1].posts) = 0

\* C14: records with equal totalLikes keep the order of the enumeration; for
\* A(5), B(10), C(10) the list is B, C, A with ranks 1, 2, 3 and totals 10, 10, 5.
C14_StableTieBreak ==
  leaderboardRes.status = 200 =>
    /\ \A i, j \in 1..Len(Board) :
         (i < j /\ Board[i].totalLikes = Board[j].totalLikes)
         => Board[i].userId < Board[j].userId
    /\ (/\ Len(leaderboard) = 3
        /\ [i \in 1..3 |-> LikesOf(leaderboard[i].posts)] = <<5, 10, 10>>)
       => /\ Len(Board) = 3
          /\ [i \in 1..3 |-> <<Board[i].rank, Board[i].userId, Board[i].totalLikes>>]
               = << <<1, 2, 10>>, <<2, 3, 10>>, <<3, 1, 5>> >>

\* The enumeration A(5), B(10), C(10) has been answered.
C14_Witness ==
  /\ leaderboardRes.status = 200
  /\ Len(leaderboard) = 3
  /\ [i \in 1..3 |-> LikesOf(leaderboard[i].posts)] = <<5, 10, 10>>
  /\ Len(Board) = 3

====
